---------------------------- MODULE Spec2Model ----------------------------
(***************************************************************************)
(* Model of the help overlay (src/src/help.cpp): catalog load with static  *)
(* placeholder expansion, the direction diagram, the menu/detail loop of   *)
(* display_help and the per-display <press_X> resolution.                  *)
(*                                                                         *)
(* A std::string is a sequence of one-character strings; positions are     *)
(* 0-based as in the code.                                                 *)
(***************************************************************************)
EXTENDS Integers, Sequences, FiniteSets, TLC

VARIABLES
    help_texts,   \* help::help_texts : order -> [first: name, second: messages]
    hotkeys,      \* help::hotkeys    : one hotkey list per record, in file order
    keymap,       \* the key bindings: action id -> ordered list of bound keys
    load_status,  \* outcome of the last help::load: "none", "ok", "DataError"
    loads,        \* number of help::load calls so far
    src,          \* the source handed to the last help::load
    pc,           \* display_help: "idle", "input" (MenuOpen), "detail" (DetailOpen), "done"
    action,       \* display_help local `action`
    sInput,       \* display_help local `sInput`
    scan_i,       \* display_help: index i of the outer hotkey loop
    shown,        \* text handed to scrollable_text while the detail view is open
    debug_log,    \* action identifiers reported through debugmsg
    ev,           \* the input event read by the last ctxt.handle_input()
    opened,       \* detail views opened since the last ctxt.handle_input()
    movement,     \* value returned by the get_dir_grid call under observation
    line_segs,    \* pieces of the paragraph handed to the display lambda
    line_proc     \* the lambda's result for that paragraph

vars == <<help_texts, hotkeys, keymap, load_status, loads, src, pc, action, sInput,
          scan_i, shown, debug_log, ev, opened, movement, line_segs, line_proc>>

catalogVars == <<help_texts, hotkeys, load_status, loads, src>>
loopVars == <<pc, action, sInput, scan_i, shown, debug_log, ev, opened>>
lineVars == <<line_segs, line_proc>>

----------------------------------------------------------------------------
(* Bounds *)

MaxOrder == 2       \* order values range over 0..MaxOrder
MaxRecs == 2        \* records per source
MaxLoads == 2       \* help::load calls per behaviour
MaxBindings == 2    \* keys bound over all directions in the diagram runs
MaxSegs == 3        \* pieces per paragraph in the resolution runs

----------------------------------------------------------------------------
(* String literals *)

S_press ==
    <<"<","p","r","e","s","s","_">>
S_gt ==
    <<">">>
S_lt ==
    <<"<">>
S_bar ==
    <<"|">>
S_light_blue ==
    <<"<","c","o","l","o","r","_","l","i","g","h","t","_","b","l","u","e",">">>
S_color_end ==
    <<"<","/","c","o","l","o","r",">">>
S_red_q ==
    <<"<","c","o","l","o","r","_","r","e","d",">","?","<","/","c","o","l","o","r",">">>
S_DRAW_NOTE_COLORS ==
    <<"<","D","R","A","W","_","N","O","T","E","_","C","O","L","O","R","S",">">>
S_HELP_DRAW_DIRECTIONS ==
    <<"<","H","E","L","P","_","D","R","A","W","_","D","I","R","E","C","T","I","O","N","S",">">>
S_GAME_DIRECTORIES ==
    <<"<","G","A","M","E","_","D","I","R","E","C","T","O","R","I","E","S",">">>
S_note_colors_label ==
    <<"N","o","t","e"," ","c","o","l","o","r","s",":"," ">>
S_sep ==
    <<"\n","\n">>
S_or ==
    <<" ","o","r"," ">>
S_quote ==
    <<"'">>
S_use ==
    <<"U","s","e"," ">>
S_hi ==
    <<"h","i">>
S_ho ==
    <<"h","o">>
S_paths ==
    <<"d","a","t","a",":"," ","/","u","s","r","/","s","h","a","r","e","/","c","a","t","a","c",
      "l","y","s","m","-","b","n","/">>
S_pickup ==
    <<"p","i","c","k","u","p">>
S_long ==
    <<"t","o","g","g","l","e","_","a","u","t","o","_","t","r","a","v","e","l","_","m","o","d",
      "e">>
S_nope ==
    <<"n","o","p","e">>
S_name_a ==
    <<"<","a","|","A",">","b","o","u","t">>
S_name_b ==
    <<"<","b",">","a","s","i","c","s">>
S_name_c ==
    <<"<","a",">","m","m","o">>

movement_template ==
    <<"<","L","E","F","T","U","P","_","0",">"," "," ","<","U","P","_","0",">"," "," ","<","R",
      "I","G","H","T","U","P","_","0",">"," "," "," ","<","L","E","F","T","U","P","_","1",">",
      " "," ","<","U","P","_","1",">"," "," ","<","R","I","G","H","T","U","P","_","1",">","\n",
      " ","\\"," ","|"," ","/"," "," "," "," "," ","\\"," ","|"," ","/","\n"," "," ","\\","|",
      "/"," "," "," "," "," "," "," ","\\","|","/","\n","<","L","E","F","T","_","0",">","-","-",
      "<","p","a","u","s","e","_","0",">","-","-","<","R","I","G","H","T","_","0",">"," "," ",
      " ","<","L","E","F","T","_","1",">","-","-","<","p","a","u","s","e","_","1",">","-","-",
      "<","R","I","G","H","T","_","1",">","\n"," "," ","/","|","\\"," "," "," "," "," "," "," ",
      "/","|","\\","\n"," ","/"," ","|"," ","\\"," "," "," "," "," ","/"," ","|"," ","\\","\n",
      "<","L","E","F","T","D","O","W","N","_","0",">"," "," ","<","D","O","W","N","_","0",">",
      " "," ","<","R","I","G","H","T","D","O","W","N","_","0",">"," "," "," ","<","L","E","F",
      "T","D","O","W","N","_","1",">"," "," ","<","D","O","W","N","_","1",">"," "," ","<","R",
      "I","G","H","T","D","O","W","N","_","1",">">>

DiagramCells ==
    << [dir |-> "ACTION_MOVE_FORTH_LEFT", slot |-> 0, lit |-> <<>>],
       [dir |-> "", slot |-> 0, lit |-> <<" "," ">>],
       [dir |-> "ACTION_MOVE_FORTH", slot |-> 0, lit |-> <<>>],
       [dir |-> "", slot |-> 0, lit |-> <<" "," ">>],
       [dir |-> "ACTION_MOVE_FORTH_RIGHT", slot |-> 0, lit |-> <<>>],
       [dir |-> "", slot |-> 0, lit |-> <<" "," "," ">>],
       [dir |-> "ACTION_MOVE_FORTH_LEFT", slot |-> 1, lit |-> <<>>],
       [dir |-> "", slot |-> 0, lit |-> <<" "," ">>],
       [dir |-> "ACTION_MOVE_FORTH", slot |-> 1, lit |-> <<>>],
       [dir |-> "", slot |-> 0, lit |-> <<" "," ">>],
       [dir |-> "ACTION_MOVE_FORTH_RIGHT", slot |-> 1, lit |-> <<>>],
       [dir |-> "", slot |-> 0, lit |-> <<"\n"," ","\\"," ","|"," ","/"," "," "," "," "," ","\\"," ","|"," ","/","\n"," "," ","\\","|","/"," "," "," "," "," "," "," ","\\","|","/","\n">>],
       [dir |-> "ACTION_MOVE_LEFT", slot |-> 0, lit |-> <<>>],
       [dir |-> "", slot |-> 0, lit |-> <<"-","-">>],
       [dir |-> "ACTION_PAUSE", slot |-> 0, lit |-> <<>>],
       [dir |-> "", slot |-> 0, lit |-> <<"-","-">>],
       [dir |-> "ACTION_MOVE_RIGHT", slot |-> 0, lit |-> <<>>],
       [dir |-> "", slot |-> 0, lit |-> <<" "," "," ">>],
       [dir |-> "ACTION_MOVE_LEFT", slot |-> 1, lit |-> <<>>],
       [dir |-> "", slot |-> 0, lit |-> <<"-","-">>],
       [dir |-> "ACTION_PAUSE", slot |-> 1, lit |-> <<>>],
       [dir |-> "", slot |-> 0, lit |-> <<"-","-">>],
       [dir |-> "ACTION_MOVE_RIGHT", slot |-> 1, lit |-> <<>>],
       [dir |-> "", slot |-> 0, lit |-> <<"\n"," "," ","/","|","\\"," "," "," "," "," "," "," ","/","|","\\","\n"," ","/"," ","|"," ","\\"," "," "," "," "," ","/"," ","|"," ","\\","\n">>],
       [dir |-> "ACTION_MOVE_BACK_LEFT", slot |-> 0, lit |-> <<>>],
       [dir |-> "", slot |-> 0, lit |-> <<" "," ">>],
       [dir |-> "ACTION_MOVE_BACK", slot |-> 0, lit |-> <<>>],
       [dir |-> "", slot |-> 0, lit |-> <<" "," ">>],
       [dir |-> "ACTION_MOVE_BACK_RIGHT", slot |-> 0, lit |-> <<>>],
       [dir |-> "", slot |-> 0, lit |-> <<" "," "," ">>],
       [dir |-> "ACTION_MOVE_BACK_LEFT", slot |-> 1, lit |-> <<>>],
       [dir |-> "", slot |-> 0, lit |-> <<" "," ">>],
       [dir |-> "ACTION_MOVE_BACK", slot |-> 1, lit |-> <<>>],
       [dir |-> "", slot |-> 0, lit |-> <<" "," ">>],
       [dir |-> "ACTION_MOVE_BACK_RIGHT", slot |-> 1, lit |-> <<>>] >>

----------------------------------------------------------------------------
(* std::string primitives *)

npos == 1000000

\* s.find( w, from ): least 0-based position >= from where w occurs, else npos
Find(s, w, from) ==
    LET cands == {p \in from..(Len(s) - Len(w)) : SubSeq(s, p + 1, p + Len(w)) = w}
    IN  IF cands = {} THEN npos ELSE CHOOSE p \in cands : \A q \in cands : p <= q

\* s.substr( pos, count ): count is clamped to the end of the string
substr(s, pos, count) ==
    LET n == IF count > Len(s) - pos THEN Len(s) - pos ELSE count
    IN  SubSeq(s, pos + 1, pos + n)

RECURSIVE replace_from(_, _, _, _)
replace_from(text, before, after, pos) ==
    LET p == Find(text, before, pos)
    IN  IF p = npos
        THEN text
        ELSE replace_from(SubSeq(text, 1, p) \o after
                            \o SubSeq(text, p + Len(before) + 1, Len(text)),
                          before, after, p + Len(after))

replace_all(text, before, after) ==
    IF before = <<>> THEN text ELSE replace_from(text, before, after, 0)

RECURSIVE Flatten(_)
Flatten(ss) == IF ss = <<>> THEN <<>> ELSE Head(ss) \o Flatten(Tail(ss))

Contains(s, w) == Find(s, w, 0) # npos

----------------------------------------------------------------------------
(* Key bindings and actions *)

movearray ==
    << "ACTION_MOVE_FORTH_LEFT", "ACTION_MOVE_FORTH", "ACTION_MOVE_FORTH_RIGHT",
       "ACTION_MOVE_LEFT", "ACTION_PAUSE", "ACTION_MOVE_RIGHT",
       "ACTION_MOVE_BACK_LEFT", "ACTION_MOVE_BACK", "ACTION_MOVE_BACK_RIGHT" >>

Directions == {movearray[j] : j \in 1..Len(movearray)}

ActionIds == Directions \cup {"ACTION_PICKUP", "ACTION_TOGGLE_AUTO_TRAVEL_MODE", "ACTION_NULL"}

action_ident(act) ==
    CASE act = "ACTION_MOVE_FORTH_LEFT"  -> <<"L","E","F","T","U","P">>
      [] act = "ACTION_MOVE_FORTH"       -> <<"U","P">>
      [] act = "ACTION_MOVE_FORTH_RIGHT" -> <<"R","I","G","H","T","U","P">>
      [] act = "ACTION_MOVE_LEFT"        -> <<"L","E","F","T">>
      [] act = "ACTION_PAUSE"            -> <<"p","a","u","s","e">>
      [] act = "ACTION_MOVE_RIGHT"       -> <<"R","I","G","H","T">>
      [] act = "ACTION_MOVE_BACK_LEFT"   -> <<"L","E","F","T","D","O","W","N">>
      [] act = "ACTION_MOVE_BACK"        -> <<"D","O","W","N">>
      [] act = "ACTION_MOVE_BACK_RIGHT"  -> <<"R","I","G","H","T","D","O","W","N">>
      [] act = "ACTION_PICKUP"           -> S_pickup
      [] act = "ACTION_TOGGLE_AUTO_TRAVEL_MODE" -> S_long
      [] OTHER                           -> <<"n","u","l","l">>

look_up_action(ident) ==
    LET hits == {a \in ActionIds \ {"ACTION_NULL"} : action_ident(a) = ident}
    IN  IF hits = {} THEN "ACTION_NULL" ELSE CHOOSE a \in hits : TRUE

keys_bound_to(km, act) == km[act]

RECURSIVE key_list(_)
key_list(keys) ==
    IF keys = <<>> THEN <<>>
    ELSE S_quote \o <<Head(keys)>> \o S_quote
           \o (IF Tail(keys) = <<>> THEN <<>> ELSE S_or \o key_list(Tail(keys)))

\* press_x( act, "", "" ): the bound keys, or the empty key_unbound text
press_x(km, act) == key_list(km[act])

NoBindings == [a \in ActionIds |-> <<>>]

\* the keys a user may bind to an action
CandidateKeys(act) ==
    CASE act = "ACTION_MOVE_FORTH_LEFT"  -> {"y", "7"}
      [] act = "ACTION_MOVE_FORTH"       -> {"k", "8"}
      [] act = "ACTION_MOVE_FORTH_RIGHT" -> {"u", "9"}
      [] act = "ACTION_MOVE_LEFT"        -> {"h", "4"}
      [] act = "ACTION_PAUSE"            -> {".", "5"}
      [] act = "ACTION_MOVE_RIGHT"       -> {"l", "6"}
      [] act = "ACTION_MOVE_BACK_LEFT"   -> {"b", "1"}
      [] act = "ACTION_MOVE_BACK"        -> {"j", "2"}
      [] act = "ACTION_MOVE_BACK_RIGHT"  -> {"n", "3"}
      [] act = "ACTION_PICKUP"           -> {"g", ","}
      [] act = "ACTION_TOGGLE_AUTO_TRAVEL_MODE" -> {"T"}
      [] OTHER                           -> {}

RECURSIVE SumLen(_, _)
SumLen(km, S) ==
    IF S = {} THEN 0
    ELSE LET a == CHOOSE x \in S : TRUE IN Len(km[a]) + SumLen(km, S \ {a})

----------------------------------------------------------------------------
(* help::get_dir_grid *)

slot_what(dir, i) ==
    S_lt \o action_ident(dir) \o <<"_", IF i = 0 THEN "0" ELSE "1", ">">>

slot_with_first_key(keys, i) ==
    IF 0 < Len(keys) THEN S_light_blue \o <<keys[1]>> \o S_color_end ELSE S_red_q

slot_with(keys, i) ==
    IF i < Len(keys) THEN S_light_blue \o <<keys[i + 1]>> \o S_color_end ELSE S_red_q

RECURSIVE dir_grid_loop(_, _, _)
dir_grid_loop(km, text, j) ==
    IF j >= 2 * Len(movearray)
    THEN text
    ELSE LET dir == movearray[(j \div 2) + 1]
             i == j % 2
             what == slot_what(dir, i)
             with == slot_with(keys_bound_to(km, dir), i)
             replaced == replace_all(text, what, with)
         IN  \* the comparison makes TLC evaluate `replaced` before the next round
             IF replaced = text
             THEN dir_grid_loop(km, text, j + 1)
             ELSE dir_grid_loop(km, replaced, j + 1)

get_dir_grid(km) == dir_grid_loop(km, movement_template, 0)


----------------------------------------------------------------------------
(* Collaborators of the catalog load *)

\* gettext: the catalog's entry for the message, the message itself when it has none
TranslationCatalog == { <<S_hi, S_ho>> }

Translate(s) ==
    IF \E e \in TranslationCatalog : e[1] = s
    THEN (CHOOSE e \in TranslationCatalog : e[1] = s)[2]
    ELSE s

colorize(text, color) == <<"<","c","o","l","o","r","_">> \o color \o S_gt \o text \o S_color_end

\* get_note_color_names(): color index and color name
note_color_names ==
    << << <<"r">>, <<"r","e","d">> >>, << <<"g">>, <<"g","r","e","e","n">> >> >>

RECURSIVE note_colors_loop(_, _)
note_colors_loop(text, n) ==
    IF n > Len(note_color_names)
    THEN text
    ELSE note_colors_loop(
             text \o colorize(note_color_names[n][1], note_color_names[n][2])
                  \o <<":">> \o Translate(note_color_names[n][2]) \o <<",", " ">>,
             n + 1)

get_note_colors == note_colors_loop(Translate(S_note_colors_label), 1)

resolved_game_paths == S_paths

\* get_hotkeys( name ): the strings between the first '<' and the first '>',
\* separated by '|'
RECURSIVE hotkeys_loop(_, _, _, _)
hotkeys_loop(s, lastsep, sep, end) ==
    IF sep < end
    THEN <<substr(s, lastsep + 1, sep - lastsep - 1)>>
           \o hotkeys_loop(s, sep, Find(s, S_bar, sep + 1), end)
    ELSE <<substr(s, lastsep + 1, end - lastsep - 1)>>

get_hotkeys(s) ==
    LET start == Find(s, S_lt, 0)
        end == Find(s, S_gt, 0)
    IN  IF start # npos /\ end # npos
        THEN hotkeys_loop(s, start, Find(s, S_bar, start), end)
        ELSE <<>>

----------------------------------------------------------------------------
(* help::deserialize *)

EmptyMap == [k \in {} |-> <<>>]

\* std::map::operator[] used for assignment
MapPut(m, k, v) == [x \in (DOMAIN m) \cup {k} |-> IF x = k THEN v ELSE m[x]]

\* std::map::operator[] used for reading: a missing key gets a default pair
default_topic == [first |-> <<>>, second |-> <<>>]

MapTouch(m, k) == IF k \in DOMAIN m THEN m ELSE MapPut(m, k, default_topic)

expand_static(line, note_colors, dir_grid) ==
    IF line = S_DRAW_NOTE_COLORS
    THEN replace_all(line, S_DRAW_NOTE_COLORS, note_colors)
    ELSE IF line = S_HELP_DRAW_DIRECTIONS
    THEN replace_all(line, S_HELP_DRAW_DIRECTIONS, dir_grid)
    ELSE IF line = S_GAME_DIRECTORIES
    THEN resolved_game_paths
    ELSE line

\* a record of the source; `missing` names the member the record lacks
WellFormed(rec) == rec.missing = "none"

MalformedRecords ==
    { [missing |-> f, name |-> <<>>, order |-> 0, messages |-> <<>>] :
          f \in {"type", "name", "order", "messages"} }

RECURSIVE deserialize_loop(_, _, _, _, _, _)
deserialize_loop(ht, hk, recs, k, note_colors, dir_grid) ==
    IF k > Len(recs)
    THEN [help_texts |-> ht, hotkeys |-> hk, status |-> "ok"]
    ELSE LET jo == recs[k]
             messages == [n \in 1..Len(jo.messages) |->
                              expand_static(jo.messages[n], note_colors, dir_grid)]
         IN  IF ~WellFormed(jo)
             THEN [help_texts |-> ht, hotkeys |-> hk, status |-> "DataError"]
             ELSE deserialize_loop(
                      MapPut(ht, jo.order, [first |-> jo.name, second |-> messages]),
                      Append(hk, get_hotkeys(jo.name)),
                      recs, k + 1, note_colors, dir_grid)

deserialize(ht, km, recs) ==
    deserialize_loop(ht, <<>>, recs, 1, get_note_colors, get_dir_grid(km))

\* help::load
Load(source) ==
    /\ pc \in {"idle", "done"}
    /\ loads < MaxLoads
    /\ LET r == deserialize(help_texts, keymap, source)
       IN  /\ help_texts' = r.help_texts
           /\ hotkeys' = r.hotkeys
           /\ load_status' = r.status
    /\ loads' = loads + 1
    /\ src' = source
    /\ UNCHANGED <<keymap, loopVars, movement, lineVars>>

----------------------------------------------------------------------------
(* help::draw_menu and help::display_help *)

RECURSIVE draw_menu_loop(_, _)
draw_menu_loop(ht, i) ==
    IF i < Cardinality(DOMAIN ht)
    THEN draw_menu_loop(MapTouch(ht, i), i + 1)
    ELSE ht

draw_menu(ht) == draw_menu_loop(ht, 0)

\* the while loop of the display lambda; dbg collects the debugmsg reports
RECURSIVE press_loop(_, _, _, _)
press_loop(km, text, pos, dbg) ==
    IF pos = npos
    THEN [text |-> text, dbg |-> dbg]
    ELSE LET pos2 == Find(text, S_gt, pos)
             act == substr(text, pos + 7, pos2 - pos - 7)
             replace == S_light_blue \o press_x(km, look_up_action(act)) \o S_color_end
         IN  IF replace = <<>>
             THEN press_loop(km, text, Find(text, S_press, pos2), dbg \cup {act})
             ELSE LET replaced == replace_all(text, S_press \o act \o S_gt, replace)
                  IN  press_loop(km, replaced, Find(replaced, S_press, pos2), dbg)

resolve_line(km, line) ==
    LET translated == Translate(line)
    IN  press_loop(km, translated, Find(translated, S_press, 0), {})

\* std::accumulate with lhs + "\n\n" + rhs
RECURSIVE join_paragraphs(_)
join_paragraphs(ps) ==
    IF Len(ps) = 1 THEN ps[1]
    ELSE join_paragraphs(SubSeq(ps, 1, Len(ps) - 1)) \o S_sep \o ps[Len(ps)]

\* the outer hotkey loop from index i on, up to the next scrollable_text call
RECURSIVE scan_from(_, _, _, _, _, _, _)
scan_from(ht, hk, km, input, i, act, dbg) ==
    IF i >= Len(hk)
    THEN [help_texts |-> ht, i |-> i, action |-> act, dbg |-> dbg,
          popup |-> FALSE, text |-> <<>>]
    ELSE IF \E j \in 1..Len(hk[i + 1]) : hk[i + 1][j] = input
    THEN LET ht2 == MapTouch(ht, i)
             res == [n \in 1..Len(ht2[i].second) |-> resolve_line(km, ht2[i].second[n])]
             i18n_help_texts == [n \in 1..Len(res) |-> res[n].text]
             dbg2 == dbg \cup UNION {res[n].dbg : n \in 1..Len(res)}
         IN  IF i18n_help_texts # <<>>
             THEN [help_texts |-> ht2, i |-> i, action |-> act, dbg |-> dbg2,
                   popup |-> TRUE, text |-> join_paragraphs(i18n_help_texts)]
             ELSE scan_from(ht2, hk, km, input, i + 1, "CONFIRM", dbg2)
    ELSE scan_from(ht, hk, km, input, i + 1, act, dbg)

\* the registered actions; a cardinal action takes the same path as ANY_INPUT
InputActions == {"QUIT", "CONFIRM", "ANY_INPUT"}

RawTokens == { <<"a">>, <<"A">>, <<"b">> }

InputEvents == [action : InputActions, raw : RawTokens]

NoEvent == [action |-> "", raw |-> <<>>]

\* display_help up to its first blocking read
DisplayHelp ==
    /\ pc \in {"idle", "done"}
    /\ pc' = "input"
    /\ help_texts' = draw_menu(help_texts)
    /\ action' = ""
    /\ sInput' = <<>>
    /\ scan_i' = 0
    /\ shown' = <<>>
    /\ ev' = NoEvent
    /\ opened' = 0
    /\ UNCHANGED <<hotkeys, keymap, load_status, loads, src, debug_log, movement, lineVars>>

\* ctxt.handle_input() returns e; the hotkey loop runs to its first popup or to its end
HandleInput(e) ==
    /\ pc = "input"
    /\ ev' = e
    /\ sInput' = e.raw
    /\ LET r == scan_from(help_texts, hotkeys, keymap, e.raw, 0, e.action, debug_log)
       IN  /\ opened' = IF r.popup THEN 1 ELSE 0
           /\ action' = r.action
           /\ debug_log' = r.dbg
           /\ scan_i' = r.i
           /\ shown' = r.text
           /\ IF r.popup
              THEN pc' = "detail" /\ help_texts' = r.help_texts
              ELSE IF r.action # "QUIT"
              THEN pc' = "input" /\ help_texts' = draw_menu(r.help_texts)
              ELSE pc' = "done" /\ help_texts' = r.help_texts
    /\ UNCHANGED <<hotkeys, keymap, load_status, loads, src, movement, lineVars>>

\* scrollable_text returns; the hotkey loop resumes after the break
DismissDetail ==
    /\ pc = "detail"
    /\ LET r == scan_from(help_texts, hotkeys, keymap, sInput, scan_i + 1, "CONFIRM", debug_log)
       IN  /\ action' = r.action
           /\ debug_log' = r.dbg
           /\ scan_i' = r.i
           /\ shown' = r.text
           /\ opened' = IF r.popup THEN opened + 1 ELSE opened
           /\ IF r.popup
              THEN pc' = "detail" /\ help_texts' = r.help_texts
              ELSE IF r.action # "QUIT"
              THEN pc' = "input" /\ help_texts' = draw_menu(r.help_texts)
              ELSE pc' = "done" /\ help_texts' = r.help_texts
    /\ UNCHANGED <<hotkeys, keymap, load_status, loads, src, sInput, ev, movement, lineVars>>

----------------------------------------------------------------------------
(* Catalog runs: loads, reloads and the interactive loop *)

InitCommonIdle ==
    /\ help_texts = <<>>
    /\ hotkeys = <<>>
    /\ load_status = "none"
    /\ loads = 0
    /\ src = <<>>
    /\ pc = "idle"
    /\ action = ""
    /\ sInput = <<>>
    /\ scan_i = 0
    /\ shown = <<>>
    /\ debug_log = {}
    /\ ev = [action |-> "", raw |-> <<>>]
    /\ opened = 0

Names == {S_name_a, S_name_b, S_name_c}

L_press_nope == S_press \o S_nope \o S_gt

MessageChoices == { <<>>, <<S_hi, L_press_nope>> }

Records ==
    { [missing |-> "none", name |-> n, order |-> o, messages |-> m] :
          n \in Names, o \in 0..MaxOrder, m \in MessageChoices }
    \cup MalformedRecords

SeqsUpTo(S, n) == UNION { [1..k -> S] : k \in 0..n }

Sources == SeqsUpTo(Records, MaxRecs)

DefaultBindings == [NoBindings EXCEPT !["ACTION_PICKUP"] = <<"g">>]

Init ==
    /\ InitCommonIdle
    /\ keymap = DefaultBindings
    /\ movement = <<>>
    /\ line_segs = <<>>
    /\ line_proc = <<>>

Next ==
    \/ \E source \in Sources : Load(source)
    \/ DisplayHelp
    \/ \E e \in InputEvents : HandleInput(e)
    \/ DismissDetail

Spec == Init /\ [][Next]_vars

----------------------------------------------------------------------------
(* Claims about the catalog runs *)

DistinctOrders(s) == \A k, l \in 1..Len(s) : k # l => s[k].order # s[l].order

WellFormedSource(s) == \A k \in 1..Len(s) : WellFormed(s[k])

\* C1: after a load of well-formed records with pairwise distinct orders, the
\* hotkey list at index i is the one derived from the name stored under order i,
\* and an open detail view belongs to a topic whose name yields the key pressed.
C1_HotkeyOpensOwnTopic ==
    (loads > 0 /\ WellFormedSource(src) /\ DistinctOrders(src)) =>
        /\ \A i \in 0..(Len(hotkeys) - 1) :
              /\ i \in DOMAIN help_texts
              /\ hotkeys[i + 1] = get_hotkeys(help_texts[i].first)
        /\ pc = "detail" =>
              \E j \in 1..Len(get_hotkeys(help_texts[scan_i].first)) :
                  get_hotkeys(help_texts[scan_i].first)[j] = sInput

\* C2: every successful load of N records with pairwise distinct orders, a
\* reload included, leaves exactly N topics, each record stored under its order.
C2_LoadYieldsNTopics ==
    [][ (loads' = loads + 1 /\ load_status' = "ok" /\ DistinctOrders(src')) =>
            /\ Cardinality(DOMAIN help_texts') = Len(src')
            /\ \A k \in 1..Len(src') :
                  /\ src'[k].order \in DOMAIN help_texts'
                  /\ help_texts'[src'[k].order].first = src'[k].name ]_vars

\* C3: a load that fails on a malformed record adds nothing to the topic map and
\* leaves no hotkey entry of the records that preceded the malformed one.
C3_FailedLoadLeavesNoPartialCatalog ==
    [][ (loads' = loads + 1 /\ load_status' = "DataError") =>
            /\ help_texts' = help_texts
            /\ hotkeys' \in {<<>>, hotkeys} ]_vars

\* C4: an event whose logical action is QUIT ends the loop at once: no detail
\* view is opened for it and no further input is read.
C4_QuitUnwindsImmediately ==
    ev.action = "QUIT" => (pc = "done" /\ opened = 0)

\* C5: outside of load, no step of the interactive flow changes the topic map.
C5_CatalogImmutableAfterLoad ==
    [][ (loads > 0 /\ loads' = loads) => help_texts' = help_texts ]_vars

\* C7: while the detail view shows a topic one of whose paragraphs holds a
\* <press_X> token of an unknown action, the diagnostic for X has been emitted.
C7_UnknownActionDiagnostic ==
    (pc = "detail" /\ \E n \in 1..Len(help_texts[scan_i].second) :
                          Contains(help_texts[scan_i].second[n], L_press_nope))
        => S_nope \in debug_log

\* C10: at most one detail view is opened per input event.
C10_OneTopicPerEvent == opened <= 1

----------------------------------------------------------------------------
(* Resolution runs: one paragraph through the display lambda *)

PressToken(ident) == S_press \o ident \o S_gt

SegChoices ==
    { [press |-> FALSE, body |-> <<" ","x"," ">>],
      [press |-> TRUE, body |-> S_pickup],
      [press |-> TRUE, body |-> S_long],
      [press |-> TRUE, body |-> S_nope] }

SegText(seg) == IF seg.press THEN PressToken(seg.body) ELSE seg.body

LineOf(segs) == Flatten([n \in 1..Len(segs) |-> SegText(segs[n])])

PressActions == {"ACTION_PICKUP", "ACTION_TOGGLE_AUTO_TRAVEL_MODE"}

InitLine ==
    /\ InitCommonIdle
    /\ keymap = NoBindings
    /\ movement = <<>>
    /\ line_segs \in SeqsUpTo(SegChoices, MaxSegs)
    /\ line_proc = <<>>

\* the lambda of std::transform applied to the paragraph
ResolveParagraph ==
    /\ line_proc = <<>>
    /\ LET r == resolve_line(keymap, LineOf(line_segs))
       IN  /\ line_proc' = <<r.text>>
           /\ debug_log' = debug_log \cup r.dbg
    /\ UNCHANGED <<keymap, catalogVars, pc, action, sInput, scan_i, shown, ev, opened,
                   movement, line_segs>>

NextParagraph(segs) ==
    /\ line_proc # <<>>
    /\ line_segs' = segs
    /\ line_proc' = <<>>
    /\ UNCHANGED <<keymap, catalogVars, loopVars, movement>>

BindActionKey(act, k) ==
    /\ \A n \in 1..Len(keymap[act]) : keymap[act][n] # k
    /\ keymap' = [keymap EXCEPT ![act] = Append(@, k)]
    /\ line_proc' = <<>>
    /\ UNCHANGED <<catalogVars, loopVars, movement, line_segs>>

NextLine ==
    \/ ResolveParagraph
    \/ \E segs \in SeqsUpTo(SegChoices, MaxSegs) : NextParagraph(segs)
    \/ \E act \in PressActions : \E k \in CandidateKeys(act) : BindActionKey(act, k)

SpecLine == InitLine /\ [][NextLine]_vars

\* no "<press_" that is closed by a later ">"
NoPressToken(text) ==
    LET p == Find(text, S_press, 0)
    IN  p = npos \/ Find(text, S_gt, p) = npos

ExpectedSeg(km, seg) ==
    IF seg.press
    THEN S_light_blue \o press_x(km, look_up_action(seg.body)) \o S_color_end
    ELSE seg.body

ExpectedLine(km, segs) == Flatten([n \in 1..Len(segs) |-> ExpectedSeg(km, segs[n])])

\* C6: one resolution pass leaves no <press_ACTION> token and puts the same
\* resolved text at every occurrence of a token.
C6_AllPressTokensResolved ==
    line_proc # <<>> =>
        /\ NoPressToken(line_proc[1])
        /\ line_proc[1] = ExpectedLine(keymap, line_segs)

----------------------------------------------------------------------------
(* Static expansion runs: loads of one record whose messages carry static tokens *)

StaticLines ==
    { S_DRAW_NOTE_COLORS, S_HELP_DRAW_DIRECTIONS, S_GAME_DIRECTORIES,
      S_use \o S_HELP_DRAW_DIRECTIONS, S_hi }

StaticSources ==
    { << [missing |-> "none", name |-> S_name_b, order |-> o, messages |-> m] >> :
          o \in 0..MaxOrder, m \in SeqsUpTo(StaticLines, 2) \ {<<>>} }

StaticBindings ==
    { NoBindings,
      [NoBindings EXCEPT !["ACTION_MOVE_FORTH"] = <<"k">>],
      [NoBindings EXCEPT !["ACTION_MOVE_LEFT"] = <<"h", "4">>] }

InitStatic ==
    /\ InitCommonIdle
    /\ keymap \in StaticBindings
    /\ movement = <<>>
    /\ line_segs = <<>>
    /\ line_proc = <<>>

NextStatic == \E source \in StaticSources : Load(source)

SpecStatic == InitStatic /\ [][NextStatic]_vars

\* the first static token, in the priority order of the code, that the line contains
MatchedStaticToken(line) ==
    IF Contains(line, S_DRAW_NOTE_COLORS) THEN S_DRAW_NOTE_COLORS
    ELSE IF Contains(line, S_HELP_DRAW_DIRECTIONS) THEN S_HELP_DRAW_DIRECTIONS
    ELSE IF Contains(line, S_GAME_DIRECTORIES) THEN S_GAME_DIRECTORIES
    ELSE <<>>

\* C9: after a load, the stored form of a message line that contained a static
\* token no longer contains that token.
C9_StaticTokenExpanded ==
    (loads > 0 /\ load_status = "ok") =>
        \A n \in 1..Len(src[1].messages) :
            LET tok == MatchedStaticToken(src[1].messages[n])
            IN  tok # <<>> => ~Contains(help_texts[src[1].order].second[n], tok)

----------------------------------------------------------------------------
(* Diagram runs: the user rebinds direction keys, get_dir_grid is called *)

InitGrid ==
    /\ InitCommonIdle
    /\ keymap = NoBindings
    /\ movement = <<>>
    /\ line_segs = <<>>
    /\ line_proc = <<>>

BindDirectionKey(dir, k) ==
    /\ SumLen(keymap, Directions) < MaxBindings
    /\ keymap' = [keymap EXCEPT ![dir] = Append(@, k)]
    /\ movement' = <<>>
    /\ UNCHANGED <<catalogVars, loopVars, lineVars>>

CallGetDirGrid ==
    /\ movement = <<>>
    /\ movement' = get_dir_grid(keymap)
    /\ UNCHANGED <<keymap, catalogVars, loopVars, lineVars>>

NextGrid ==
    \/ \E dir \in Directions : \E k \in CandidateKeys(dir) : BindDirectionKey(dir, k)
    \/ CallGetDirGrid

SpecGrid == InitGrid /\ [][NextGrid]_vars

\* the diagram with every slot filled in cell by cell
ExpectedCell(km, c) ==
    IF c.dir = "" THEN c.lit
    ELSE IF c.slot < Len(km[c.dir])
         THEN S_light_blue \o <<km[c.dir][c.slot + 1]>> \o S_color_end
         ELSE S_red_q

ExpectedGrid(km) == Flatten([n \in 1..Len(DiagramCells) |-> ExpectedCell(km, DiagramCells[n])])

NoSlotLeft(text) ==
    \A dir \in Directions : \A i \in 0..1 : ~Contains(text, slot_what(dir, i))

\* C8: in the diagram returned by get_dir_grid every slot i of every direction
\* holds the i-th key bound to that direction in light blue, or the red ? when
\* the direction has at most i keys; no slot placeholder is left.
C8_DirGridSlots ==
    movement # <<>> =>
        /\ movement = ExpectedGrid(keymap)
        /\ NoSlotLeft(movement)

\* the cells, with each slot written as its placeholder, spell the template
CellsSpellTemplate ==
    Flatten([n \in 1..Len(DiagramCells) |->
                IF DiagramCells[n].dir = "" THEN DiagramCells[n].lit
                ELSE slot_what(DiagramCells[n].dir, DiagramCells[n].slot)]) = movement_template

C8_Witness ==
    /\ movement # <<>>
    /\ CellsSpellTemplate
    /\ \E d1, d2 \in Directions :
          /\ Len(keymap[d1]) = 2
          /\ keymap[d1][1] # keymap[d1][2]
          /\ Len(keymap[d2]) = 0
          /\ Contains(movement, S_light_blue \o <<keymap[d1][2]>> \o S_color_end)
          /\ Contains(movement, S_red_q)

=============================================================================
